---- MODULE Spec2Model ----
(***************************************************************************)
(* Model of the Huffman codec of compression.py: the HuffmanCompressor     *)
(* object (its codes and reverse_mapping dictionaries), the files its      *)
(* compress and decompress methods read and write, and the pure helpers    *)
(* (frequency count, heapq, tree building, code assignment, bit packing).  *)
(*                                                                         *)
(* Python values are represented as follows:                               *)
(*   bytes / bytearray   a sequence of byte values                         *)
(*   a string of bits    a sequence of 0 and 1                             *)
(*   a dict              a set of <<key, value>> pairs, one per key        *)
(*   Counter(data)       a sequence of <<char, count>> in insertion order  *)
(*   an optional node    <<>> for None, <<node>> for a HuffmanNode         *)
(***************************************************************************)
EXTENDS Integers, Sequences, FiniteSets, TLC

VARIABLES codes, reverse_mapping, huff, outfile, origin,
          op, text, ok, msg,
          E, packed, unpacked

vars == <<codes, reverse_mapping, huff, outfile, origin,
          op, text, ok, msg, E, packed, unpacked>>

\* ---- bounds ----
\* byte values and input lengths of the calls of a long-lived compressor
NumSymbols == 2
MaxLen == 2
\* byte values and input lengths of the longer inputs of SpecCodes
NumCodeSymbols == 3
MaxCodeLen == 6
\* length of the input a compressor of SpecCodes has compressed before
MaxWarm == 2
\* length of the bit sequences given to the packer in SpecPack
MaxBits == 9

Symbols == 0 .. (NumSymbols - 1)
Texts == UNION {[1 .. n -> Symbols] : n \in 0 .. MaxLen}
CodeSymbols == 0 .. (NumCodeSymbols - 1)
CodeTexts == UNION {[1 .. n -> CodeSymbols] : n \in 0 .. MaxCodeLen}
\* earlier inputs: the first n byte values, once each
WarmTexts == {[i \in 1 .. n |-> i - 1] : n \in 0 .. MaxWarm}
BitSeqs == UNION {[1 .. n -> {0, 1}] : n \in 0 .. MaxBits}
CorruptPads == {9}

\* ---- dictionaries ----
None == -1

Has(d, k) == \E p \in d : p[1] = k
Get(d, k) == (CHOOSE p \in d : p[1] = k)[2]
Put(d, k, v) == {p \in d : p[1] # k} \cup {<<k, v>>}

\* ---- HuffmanNode ----
HuffmanNode(char, freq) ==
    [char |-> char, freq |-> freq, left |-> <<>>, right |-> <<>>]

\* the comparison reversed: the heap would hand out the heaviest nodes first
lt_reversed(a, b) == a.freq > b.freq

\* HuffmanNode.__lt__
lt(a, b) == a.freq < b.freq

\* ---- heapq (0-based positions, as in the library) ----
RECURSIVE siftdown_loop(_, _, _, _)
siftdown_loop(heap, startpos, pos, newitem) ==
    IF pos > startpos
    THEN LET parentpos == (pos - 1) \div 2
             parent == heap[parentpos + 1]
         IN  IF lt(newitem, parent)
             THEN siftdown_loop([heap EXCEPT ![pos + 1] = parent],
                                startpos, parentpos, newitem)
             ELSE [heap EXCEPT ![pos + 1] = newitem]
    ELSE [heap EXCEPT ![pos + 1] = newitem]

siftdown(heap, startpos, pos) ==
    siftdown_loop(heap, startpos, pos, heap[pos + 1])

RECURSIVE siftup_loop(_, _, _, _)
siftup_loop(heap, startpos, pos, newitem) ==
    LET endpos == Len(heap)
        childpos == 2 * pos + 1
    IN  IF childpos < endpos
        THEN LET rightpos == childpos + 1
                 c == IF rightpos < endpos
                         /\ ~ lt(heap[childpos + 1], heap[rightpos + 1])
                      THEN rightpos ELSE childpos
             IN  siftup_loop([heap EXCEPT ![pos + 1] = heap[c + 1]],
                             startpos, c, newitem)
        ELSE siftdown([heap EXCEPT ![pos + 1] = newitem], startpos, pos)

siftup(heap, pos) == siftup_loop(heap, pos, pos, heap[pos + 1])

heappush(heap, item) == siftdown(Append(heap, item), 0, Len(heap))

\* heappop returns the popped item and the heap that is left
heappop(heap) ==
    LET lastelt == heap[Len(heap)]
        rest == SubSeq(heap, 1, Len(heap) - 1)
    IN  IF rest # <<>>
        THEN [item |-> rest[1],
              heap |-> siftup([rest EXCEPT ![1] = lastelt], 0)]
        ELSE [item |-> lastelt, heap |-> rest]

\* ---- frequency model ----
RECURSIVE CounterAdd(_, _, _)
CounterAdd(freq, i, char) ==
    IF i > Len(freq) THEN Append(freq, <<char, 1>>)
    ELSE IF freq[i][1] = char
         THEN [freq EXCEPT ![i] = <<char, freq[i][2] + 1>>]
         ELSE CounterAdd(freq, i + 1, char)

RECURSIVE build_frequency_dict(_)
build_frequency_dict(data) ==
    IF data = <<>> THEN <<>>
    ELSE CounterAdd(build_frequency_dict(SubSeq(data, 1, Len(data) - 1)),
                    1, data[Len(data)])

\* ---- tree builder ----
RECURSIVE build_heap_loop(_, _, _)
build_heap_loop(frequency, i, heap) ==
    IF i > Len(frequency) THEN heap
    ELSE build_heap_loop(frequency, i + 1,
             heappush(heap, HuffmanNode(frequency[i][1], frequency[i][2])))

build_heap(frequency) == build_heap_loop(frequency, 1, <<>>)

Merge(node1, node2) ==
    [char |-> None, freq |-> node1.freq + node2.freq,
     left |-> <<node1>>, right |-> <<node2>>]

RECURSIVE build_tree(_)
build_tree(heap) ==
    IF Len(heap) > 1
    THEN LET p1 == heappop(heap)
             p2 == heappop(p1.heap)
         IN  build_tree(heappush(p2.heap, Merge(p1.item, p2.item)))
    ELSE IF heap # <<>> THEN <<heap[1]>> ELSE <<>>

\* ---- code table generator ----
LeftCode(current_code) == Append(current_code, 0)

\* the right branch labelled like the left one
RightCode_zero(current_code) == Append(current_code, 0)

RightCode(current_code) == Append(current_code, 1)

\* self is the pair of dictionaries of the compressor object
RECURSIVE build_codes(_, _, _)
build_codes(self, node, current_code) ==
    IF node = <<>> THEN self
    ELSE IF node[1].char # None
         THEN [codes |-> Put(self.codes, node[1].char, current_code),
               reverse_mapping |->
                   Put(self.reverse_mapping, current_code, node[1].char)]
         ELSE build_codes(
                  build_codes(self, node[1].left, LeftCode(current_code)),
                  node[1].right, RightCode(current_code))

\* ---- bit packer ----
RECURSIVE get_encoded_text(_, _)
get_encoded_text(cs, data) ==
    IF data = <<>> THEN <<>>
    ELSE Get(cs, data[1]) \o get_encoded_text(cs, Tail(data))

Zeros(n) == [i \in 1 .. n |-> 0]

\* bin(n)[2:] : the binary digits of n without leading zeros ("0" for 0)
RECURSIVE Bin(_)
Bin(n) == IF n < 2 THEN <<n>> ELSE Append(Bin(n \div 2), n % 2)

\* s.rjust(8, '0') and the 08b format: left-fill with zeros to width 8
RJust8(s) == IF Len(s) >= 8 THEN s ELSE Zeros(8 - Len(s)) \o s

\* int(s, 2) for a non-empty string of bits
RECURSIVE Int2(_)
Int2(s) ==
    IF s = <<>> THEN 0
    ELSE 2 * Int2(SubSeq(s, 1, Len(s) - 1)) + s[Len(s)]

\* padding reduced modulo 8: nothing appended to an aligned sequence
ExtraPadding_mod8(encoded_text) == (8 - (Len(encoded_text) % 8)) % 8

ExtraPadding(encoded_text) == 8 - (Len(encoded_text) % 8)

pad_encoded_text(encoded_text) ==
    LET extra_padding == ExtraPadding(encoded_text)
    IN  RJust8(Bin(extra_padding)) \o encoded_text \o Zeros(extra_padding)

\* the caller always passes a length that is a multiple of 8
get_byte_array(padded_encoded_text) ==
    [i \in 1 .. (Len(padded_encoded_text) \div 8) |->
        Int2(SubSeq(padded_encoded_text, 8 * (i - 1) + 1, 8 * i))]

\* ---- bit unpacker ----
RECURSIVE ToBitString(_)
ToBitString(bytes) ==
    IF bytes = <<>> THEN <<>>
    ELSE RJust8(Bin(bytes[1])) \o ToBitString(Tail(bytes))

\* s[:n] and s[:-n] of Python
Prefix(s, n) == SubSeq(s, 1, IF n < Len(s) THEN n ELSE Len(s))
DropLast(s, n) == IF n >= Len(s) THEN <<>> ELSE SubSeq(s, 1, Len(s) - n)
SliceToMinus(s, n) == IF n = 0 THEN <<>> ELSE DropLast(s, n)

\* int('', 2) raises ValueError
RemovePaddingRaises(padded_encoded_text) == Prefix(padded_encoded_text, 8) = <<>>

remove_padding(padded_encoded_text) ==
    LET padded_info == Prefix(padded_encoded_text, 8)
        extra_padding == Int2(padded_info)
        rest == SubSeq(padded_encoded_text, 9, Len(padded_encoded_text))
    IN  SliceToMinus(rest, extra_padding)

RECURSIVE decode_loop(_, _, _, _)
decode_loop(rm, encoded_text, current_code, decoded_bytes) ==
    IF encoded_text = <<>> THEN decoded_bytes
    ELSE LET cc == Append(current_code, encoded_text[1])
         IN  IF Has(rm, cc)
             THEN decode_loop(rm, Tail(encoded_text), <<>>,
                              Append(decoded_bytes, Get(rm, cc)))
             ELSE decode_loop(rm, Tail(encoded_text), cc, decoded_bytes)

decode_text(rm, encoded_text) == decode_loop(rm, encoded_text, <<>>, <<>>)

\* ---- files ----
NoFile == [exists |-> FALSE, reverse_mapping |-> {}, compressed_data |-> <<>>]

\* the pickled dictionary {'reverse_mapping': ..., 'compressed_data': ...}
Pickle(rm, b) ==
    [exists |-> TRUE, reverse_mapping |-> rm, compressed_data |-> b]

NoOutput == [exists |-> FALSE, data |-> <<>>]

\* ---- HuffmanCompressor.compress ----
\* the empty-file test left out
IsEmptyFile_never(data) == FALSE

IsEmptyFile(data) == Len(data) = 0

\* self: the object's dictionaries; data: the bytes read from input_path.
\* The result carries the returned pair, the object afterwards and what,
\* if anything, was written to output_path.
compress(self, data) ==
    IF IsEmptyFile(data)
    THEN [ok |-> FALSE, msg |-> "File is empty", self |-> self,
          wrote |-> FALSE, file |-> NoFile]
    ELSE LET frequency == build_frequency_dict(data)
             heap == build_heap(frequency)
             root == build_tree(heap)
             self2 == build_codes(self, root, <<>>)
             encoded_text == get_encoded_text(self2.codes, data)
             padded_encoded_text == pad_encoded_text(encoded_text)
             b == get_byte_array(padded_encoded_text)
         IN  [ok |-> TRUE, msg |-> "Compression successful", self |-> self2,
              wrote |-> TRUE, file |-> Pickle(self2.reverse_mapping, b)]

\* ---- HuffmanCompressor.decompress ----
\* file: the content of input_path.  open() raises on a missing file and
\* int('', 2) raises on an empty payload; both end in the except branch.
decompress(self, file) ==
    IF ~ file.exists
    THEN [ok |-> FALSE, msg |-> "Decompression failed", self |-> self,
          wrote |-> FALSE, data |-> <<>>]
    ELSE LET self2 == [self EXCEPT !.reverse_mapping = file.reverse_mapping]
             bit_string == ToBitString(file.compressed_data)
         IN  IF RemovePaddingRaises(bit_string)
             THEN [ok |-> FALSE, msg |-> "Decompression failed",
                   self |-> self2, wrote |-> FALSE, data |-> <<>>]
             ELSE LET encoded_text == remove_padding(bit_string)
                      decompressed_bytes ==
                          decode_text(self2.reverse_mapping, encoded_text)
                  IN  [ok |-> TRUE, msg |-> "Decompression successful",
                       self |-> self2, wrote |-> TRUE,
                       data |-> decompressed_bytes]

\* ---- the state machine: one long-lived compressor and its files ----
\* codes, reverse_mapping   the fields of the HuffmanCompressor
\* huff                     the compressed file (output of compress, input
\*                          of decompress)
\* outfile                  the file decompress writes
\* origin                   the input the compressed file was made from and
\*                          whether its padding byte was altered since
\* op, text, ok, msg        the last call, the bytes it read when it was a
\*                          compress call, and the returned pair
\* E, packed, unpacked      a bit sequence going through the packer
NewCompressor == [codes |-> {}, reverse_mapping |-> {}]

Init ==
    /\ codes = NewCompressor.codes
    /\ reverse_mapping = NewCompressor.reverse_mapping
    /\ huff = NoFile
    /\ outfile = NoOutput
    /\ origin = [text |-> <<>>, tampered |-> FALSE]
    /\ op = "init"
    /\ text = <<>>
    /\ ok = TRUE
    /\ msg = ""
    /\ E = <<>>
    /\ packed = <<>>
    /\ unpacked = <<>>

Compress(data) ==
    LET r == compress([codes |-> codes, reverse_mapping |-> reverse_mapping],
                      data)
    IN  /\ codes' = r.self.codes
        /\ reverse_mapping' = r.self.reverse_mapping
        /\ huff' = IF r.wrote THEN r.file ELSE huff
        /\ origin' = IF r.wrote THEN [text |-> data, tampered |-> FALSE]
                     ELSE origin
        /\ op' = "compress"
        /\ text' = data
        /\ ok' = r.ok
        /\ msg' = r.msg
        /\ UNCHANGED <<outfile, E, packed, unpacked>>

Decompress ==
    LET r == decompress([codes |-> codes,
                         reverse_mapping |-> reverse_mapping], huff)
    IN  /\ codes' = r.self.codes
        /\ reverse_mapping' = r.self.reverse_mapping
        /\ outfile' = IF r.wrote THEN [exists |-> TRUE, data |-> r.data]
                      ELSE outfile
        /\ op' = "decompress"
        /\ text' = <<>>
        /\ ok' = r.ok
        /\ msg' = r.msg
        /\ UNCHANGED <<huff, origin, E, packed, unpacked>>

\* the environment overwrites the padding-count byte of the compressed file
Corrupt(v) ==
    /\ huff.exists
    /\ ~ origin.tampered
    /\ huff.compressed_data[1] # v
    /\ huff' = [huff EXCEPT !.compressed_data[1] = v]
    /\ origin' = [origin EXCEPT !.tampered = TRUE]
    /\ op' = "corrupt"
    /\ text' = <<>>
    /\ UNCHANGED <<codes, reverse_mapping, outfile, ok, msg,
                   E, packed, unpacked>>

Next ==
    \/ \E data \in Texts : Compress(data)
    \/ Decompress
    \/ \E v \in CorruptPads : Corrupt(v)

Spec == Init /\ [][Next]_vars

\* ---- one observed compress call, over longer inputs ----
\* The compressor is new (the earlier input is empty) or has compressed one
\* earlier input, so that its dictionaries and the output file hold what
\* that call left; op, text, ok and msg describe the observed call only.
InitCodes ==
    \E w \in WarmTexts :
        LET r == compress(NewCompressor, w)
        IN  /\ codes = r.self.codes
            /\ reverse_mapping = r.self.reverse_mapping
            /\ huff = IF r.wrote THEN r.file ELSE NoFile
            /\ outfile = NoOutput
            /\ origin = [text |-> IF r.wrote THEN w ELSE <<>>,
                         tampered |-> FALSE]
            /\ op = "init"
            /\ text = <<>>
            /\ ok = TRUE
            /\ msg = ""
            /\ E = <<>>
            /\ packed = <<>>
            /\ unpacked = <<>>

CompressOnce ==
    /\ op = "init"
    /\ \E data \in CodeTexts : Compress(data)

NextCodes == CompressOnce

SpecCodes == InitCodes /\ [][NextCodes]_vars

\* ---- the packer and unpacker on arbitrary bit sequences ----
InitPack ==
    /\ codes = NewCompressor.codes
    /\ reverse_mapping = NewCompressor.reverse_mapping
    /\ huff = NoFile
    /\ outfile = NoOutput
    /\ origin = [text |-> <<>>, tampered |-> FALSE]
    /\ op = "init"
    /\ text = <<>>
    /\ ok = TRUE
    /\ msg = ""
    /\ E \in BitSeqs
    /\ packed = <<>>
    /\ unpacked = <<>>

\* compress, lines 99-100
Pack ==
    /\ op = "init"
    /\ packed' = get_byte_array(pad_encoded_text(E))
    /\ op' = "pack"
    /\ UNCHANGED <<codes, reverse_mapping, huff, outfile, origin,
                   text, ok, msg, E, unpacked>>

\* decompress, lines 143-149
Unpack ==
    /\ op = "pack"
    /\ unpacked' = remove_padding(ToBitString(packed))
    /\ op' = "unpack"
    /\ UNCHANGED <<codes, reverse_mapping, huff, outfile, origin,
                   text, ok, msg, E, packed>>

NextPack == Pack \/ Unpack

SpecPack == InitPack /\ [][NextPack]_vars

\* ---- properties ----
SymbolsOf(data) == {data[i] : i \in 1 .. Len(data)}
Count(data, s) == Cardinality({i \in 1 .. Len(data) : data[i] = s})
IsPrefix(a, b) == Len(a) <= Len(b) /\ SubSeq(b, 1, Len(a)) = a
Compressed == op = "compress" /\ ok
ReadIntact == op = "decompress" /\ huff.exists /\ ~ origin.tampered

\* C1: compress of a non-empty buffer succeeds, and decompress of the file
\* it produced succeeds and writes exactly that buffer.
C1_RoundTrip ==
    /\ (op = "compress" /\ text # <<>>) => (ok /\ huff.exists)
    /\ ReadIntact =>
           (ok /\ outfile.exists /\ outfile.data = origin.text)

\* C2: the file a compress call writes for a buffer is the file the first
\* call of a new compressor writes for that buffer, whatever calls were
\* made on the compressor before.
C2_Determinism ==
    Compressed => huff = compress(NewCompressor, text).file

\* C3: a compress call on an empty buffer returns (False, "File is empty")
\* and leaves the output file as it was.
C3_EmptyInput ==
    [][(op' = "compress" /\ text' = <<>>) =>
           (ok' = FALSE /\ msg' = "File is empty" /\ huff' = huff)]_vars

C3_Witness ==
    op = "compress" /\ text = <<>> /\ ~ ok /\ msg = "File is empty"
    /\ huff.exists

\* C4: decompress of the file made from n copies of one byte value v
\* writes n bytes, all of value v.
C4_SingleSymbol ==
    (ReadIntact /\ Cardinality(SymbolsOf(origin.text)) = 1) =>
        /\ ok
        /\ Len(outfile.data) = Len(origin.text)
        /\ \A i \in 1 .. Len(outfile.data) : outfile.data[i] = origin.text[1]

\* C5: the padding count in the first payload byte of a file written by
\* compress is in 0..7 and is the number of bits missing to the next
\* multiple of 8 (0 when the encoded length is a multiple of 8).
C5_PaddingBound ==
    Compressed =>
        LET n == Len(get_encoded_text(codes, text))
        IN  /\ huff.compressed_data[1] \in 0 .. 7
            /\ huff.compressed_data[1] = (8 - (n % 8)) % 8

\* C6: decompress of a file whose padding-count byte was changed to a value
\* greater than 7 returns failure and writes no output.
C6_CorruptionDetected ==
    [][(op' = "decompress" /\ huff.exists /\ origin.tampered
            /\ huff.compressed_data[1] > 7) =>
           (ok' = FALSE /\ outfile' = outfile)]_vars

\* C7: after compress, the code of a byte value of the input is never a
\* prefix of the code of another byte value of the input.
C7_PrefixFree ==
    Compressed =>
        \A s1, s2 \in SymbolsOf(text) :
            s1 # s2 => ~ IsPrefix(Get(codes, s1), Get(codes, s2))

C7_Witness ==
    /\ Compressed
    /\ Cardinality(SymbolsOf(text)) = 3
    /\ \E s1, s2 \in SymbolsOf(text) :
           Len(Get(codes, s1)) < Len(Get(codes, s2))

\* C8: the reverse mapping in the file written by compress is exactly the
\* inverse of the codes of the byte values of the input: one entry per
\* value, and no other entry.
C8_ExactInverse ==
    Compressed =>
        huff.reverse_mapping =
            {<<Get(codes, s), s>> : s \in SymbolsOf(text)}

\* C9: packing a bit sequence and unpacking the bytes gives the sequence
\* back.
C9_PackUnpack == op = "unpack" => unpacked = E

C9_Witness == op = "unpack" /\ Len(E) = 8 /\ unpacked = E

\* C10: a byte value that occurs strictly more often than another has a
\* code that is not longer.
C10_LengthFollowsFrequency ==
    Compressed =>
        \A s1, s2 \in SymbolsOf(text) :
            Count(text, s1) > Count(text, s2) =>
                Len(Get(codes, s1)) <= Len(Get(codes, s2))

C10_Witness ==
    /\ Compressed
    /\ \E s1, s2, s3 \in SymbolsOf(text) :
           /\ Count(text, s1) = 3 /\ Count(text, s2) = 2
           /\ Count(text, s3) = 1
           /\ Len(Get(codes, s1)) < Len(Get(codes, s3))

====
